---- MODULE Spec2Model ----
(***************************************************************************)
(* AegisNet: the cascade simulator of the SystemicSimulator component      *)
(* (runSimulation and its 600 ms timer callback) over a snapshot of        *)
(* institutions and exposures held by the parent App, and the data         *)
(* processor (processCsvData, calculateStableRisk) that builds such a      *)
(* snapshot from the parsed CSV rows; the App's analysis run               *)
(* (runAnalysisEngine), the controls of the SystemicSimulator and the      *)
(* InterventionSandbox.                                                    *)
(*                                                                         *)
(* Conventions of the model                                                *)
(*  - institution ids are positive integers; 0 is the empty string ''      *)
(*    (the only falsy id); an id larger than every institution's id is an  *)
(*    id that no institution carries.  The institutions of a snapshot     *)
(*    have distinct ids.                                                   *)
(*  - a numeric field that is 0 stands for every falsy number of the       *)
(*    source (0, NaN, undefined): the source reads them all with `|| d`.   *)
(*  - the shock (lgd) is counted in slider steps of 1/ShockDen.            *)
(*  - equity is an exact rational, kept in units of 1/EquityUnits of a     *)
(*    currency unit; the enumerated inputs divide exactly.                 *)
(*  - dates are positive integers; 0 is the empty string ''.               *)
(*  - liquidity_ratio is counted in 1/LiquidityDen; a risk score in        *)
(*    1/ScoreUnits of a point; a probability and the systemic risk index   *)
(*    in 1/RiskUnits; a centrality in 1/CentralityUnits; a value of        *)
(*    Math.random() and a severity in 1/RandDen.  All are exact rationals  *)
(*    on the enumerated inputs.                                            *)
(***************************************************************************)
EXTENDS Integers, Sequences, FiniteSets, TLC

VARIABLES
    institutions,   \* App state / prop: sequence of Institution records
    exposures,      \* App state / prop: sequence of Exposure records
    callsLeft,      \* environment: calls of runSimulation still to be made
    timers,         \* pending setTimeout callbacks, oldest first
    isRunning,      \* component state
    simResult,      \* component state (NoResult is null)
    reportData,     \* parent state written through onSimulationComplete
    pc,             \* position inside the timer callback ("idle": not in it)
    startId,        \* closure argument of the running callback
    shock,          \* closure argument of the running callback
    failed,         \* callback local: Set<string>
    rounds,         \* callback local: string[][]
    currentFailed,  \* callback local: string[]
    state,          \* callback local: the per-run equity table
    depth,          \* callback local
    nextFailures,   \* callback local of one while iteration
    fIdx,           \* position of currentFailed.forEach
    lIdx,           \* position of affectedLinks.forEach
    charged,        \* history: indices of the exposures whose loss was charged
    prevState,      \* history: the equity table when the round began
    prevFailed,     \* history: the failed set when the round began
    csvIn,          \* the arguments of processCsvData: parsed CSV rows
    csvOut,         \* the ProcessedData it returned (done: it has returned)
    riskCall,       \* a call of calculateStableRisk: its rows and its value
    patientZero,    \* SystemicSimulator state: the selected start id (0: '')
    lgd,            \* SystemicSimulator state: the slider, in 1/ShockDen
    resetAt,        \* history: callsLeft at the last handleReset (-1: none yet)
    view,           \* App state
    uploadedData,   \* App state: per table, whether it is loaded and its rows
    predictions,    \* App state
    isAnalyzing,    \* App state
    analysisTimers, \* pending callbacks of runAnalysisEngine: the tables they closed over
    alerts,         \* the alerts runAnalysisEngine has raised
    failedNodes,    \* App state handed to the ReportGenerator
    aiMemo,         \* App state
    loadingAi,      \* App state
    memoCalls,      \* calls of generatePolicyMemo that have not returned
    uploadsLeft,    \* environment: files still to be chosen
    analyzed,       \* history: an analysis callback has completed
    lastInput,      \* history: the tables the last completed callback closed over
    mode,           \* InterventionSandbox state
    targetId,       \* InterventionSandbox state
    capitalBuffer,  \* InterventionSandbox state, in halves of a point
    exposureReduction,   \* InterventionSandbox state
    liquidityInjection,  \* InterventionSandbox state
    capEnforcement,      \* InterventionSandbox state
    tradingRestriction,  \* InterventionSandbox state
    isSimulating,   \* InterventionSandbox state
    results,        \* InterventionSandbox state (NoResults is null)
    successMessage, \* InterventionSandbox state (NoMessage is null)
    sbTimers,       \* pending 1200 ms timers of the sandbox, with the render they closed over
    sbKicks,        \* pending 50 ms timers of applyAIStrategy, with the render they closed over
    sbInstitutions, \* the memoized mock institutions of the sandbox
    aiClicksLeft,   \* environment: clicks on AI RECOMMENDED still to be made
    lastRun         \* history: what started the run that set the results last

vars == <<institutions, exposures, callsLeft, timers, isRunning, simResult,
          reportData, pc, startId, shock, failed, rounds, currentFailed, state,
          depth, nextFailures, fIdx, lIdx, charged, prevState, prevFailed,
          csvIn, csvOut, riskCall, patientZero, lgd, resetAt, view, uploadedData,
          predictions, isAnalyzing, analysisTimers, alerts, failedNodes, aiMemo,
          loadingAi, memoCalls, uploadsLeft, analyzed, lastInput, mode, targetId,
          capitalBuffer, exposureReduction, liquidityInjection, capEnforcement,
          tradingRestriction, isSimulating, results, successMessage, sbTimers,
          sbKicks, sbInstitutions, aiClicksLeft, lastRun>>

csvVars == <<csvIn, csvOut, riskCall>>

uiVars == <<patientZero, lgd, resetAt>>

appVars == <<view, uploadedData, predictions, isAnalyzing, analysisTimers, alerts,
             failedNodes, aiMemo, loadingAi, memoCalls, uploadsLeft, analyzed, lastInput>>

sbVars == <<mode, targetId, capitalBuffer, exposureReduction, liquidityInjection,
            capEnforcement, tradingRestriction, isSimulating, results, successMessage,
            sbTimers, sbKicks, sbInstitutions, aiClicksLeft, lastRun>>

locals == <<startId, shock, failed, rounds, currentFailed, state, depth,
            nextFailures, fIdx, lIdx, charged, prevState, prevFailed>>

(***************************************************************************)
(* Program constants                                                       *)
(***************************************************************************)
MaxRounds == 20
DefaultLeverage == 15
DefaultAssets == 100
ShockDen == 20
Horizon == 10
\* the date of new Date('2026-02-14') on the scale of the dates of the rows
AnalysisBaseDate == 2

EquityUnits == 3 * ShockDen
LiquidityDen == 2 * 5
RandDen == 2 * 2
ScoreUnits == 6 * 50
RiskUnits == 18 * 10000
CentralityUnits == 2 * 3
\* the sandbox's percentages and losses are counted in 1/SbUnits
SbUnits == 2 * 500 * 500

(***************************************************************************)
(* Bounds of the model                                                     *)
(***************************************************************************)
MaxExp == 3
ChainLen == 22
MaxCalls == 2
MaxExpRuns == 2
MaxMetrics == 2
MaxNetwork == 4
MaxLabels == 2
MaxUploads == 4
MaxAlerts == 2
MaxAiClicks == 2
SbBanks == 2

(***************************************************************************)
(* Helpers                                                                 *)
(***************************************************************************)
\* JS `x || d` on a number
Or(x, d) == IF x = 0 THEN d ELSE x

Min(a, b) == IF a <= b THEN a ELSE b

Max(a, b) == IF a >= b THEN a ELSE b

ToSet(s) == {s[i] : i \in 1..Len(s)}

SeqsUpTo(S, n) == UNION {[1..k -> S] : k \in 0..n}

\* exact integer quotient, for either sign of the divisor
Quot(a, b) == IF b > 0 THEN a \div b ELSE (0 - a) \div (0 - b)

\* Array.prototype.find on the id: index of the first match, 0 when none
FindIndex(s, id) ==
    IF \E i \in 1..Len(s) : s[i].id = id
    THEN CHOOSE i \in 1..Len(s) : s[i].id = id /\ \A j \in 1..(i-1) : s[j].id # id
    ELSE 0

FindInst(insts, id) ==
    IF \E i \in 1..Len(insts) : insts[i].institution_id = id
    THEN CHOOSE i \in 1..Len(insts) :
            /\ insts[i].institution_id = id
            /\ \A j \in 1..(i-1) : insts[j].institution_id # id
    ELSE 0

(***************************************************************************)
(* runSimulation: the pure parts                                           *)
(***************************************************************************)
\* const state = institutions.map(i => ({id, equity, assets}))
InitialState(insts) ==
    [i \in 1..Len(insts) |->
        [id     |-> insts[i].institution_id,
         equity |-> Quot(Or(insts[i].total_assets, DefaultAssets) * EquityUnits,
                         Or(insts[i].leverage_ratio, DefaultLeverage)),
         assets |-> Or(insts[i].total_assets, 0)]]

\* AffectedLinks with `e.target = fId` for `e.target === fId`: every link passes
AffectedLinksAssigned(exps, fId) == [i \in 1..Len(exps) |-> i]

\* exposures.filter(e => e.target === fId), as indices into exposures
AffectedLinks(exps, fId) ==
    SelectSeq([i \in 1..Len(exps) |-> i], LAMBDA i : exps[i].target = fId)

\* Loss with the recovery rate in the place of the loss rate: amount * (1 - shock)
LossOfRecovery(link, shk) ==
    (Or(link.amount, 0) * (ShockDen - shk) * EquityUnits) \div ShockDen

\* const loss = (link.amount || 0) * shock
Loss(link, shk) == (Or(link.amount, 0) * shk * EquityUnits) \div ShockDen

\* ApplyLink without the `if (failed.has(link.source)) return` guard
ApplyLinkNoSkip(st, fl, nf, link, shk) ==
    LET c == FindIndex(st, link.source) IN
    IF c = 0
    THEN [state |-> st, failed |-> fl, next |-> nf, charged |-> FALSE]
    ELSE LET eq == st[c].equity - Loss(link, shk)
             st2 == [st EXCEPT ![c].equity = eq]
         IN IF eq <= 0
            THEN [state |-> st2, failed |-> fl \cup {link.source},
                  next |-> Append(nf, link.source), charged |-> TRUE]
            ELSE [state |-> st2, failed |-> fl, next |-> nf, charged |-> TRUE]

\* ApplyLink failing a creditor on equity < 0 instead of <= 0
ApplyLinkStrict(st, fl, nf, link, shk) ==
    IF link.source \in fl
    THEN [state |-> st, failed |-> fl, next |-> nf, charged |-> FALSE]
    ELSE LET c == FindIndex(st, link.source) IN
         IF c = 0
         THEN [state |-> st, failed |-> fl, next |-> nf, charged |-> FALSE]
         ELSE LET eq == st[c].equity - Loss(link, shk)
                  st2 == [st EXCEPT ![c].equity = eq]
              IN IF eq < 0
                 THEN [state |-> st2, failed |-> fl \cup {link.source},
                       next |-> Append(nf, link.source), charged |-> TRUE]
                 ELSE [state |-> st2, failed |-> fl, next |-> nf, charged |-> TRUE]

\* ApplyLink without `failed.add(link.source)`: the creditor is pushed only
ApplyLinkNoMark(st, fl, nf, link, shk) ==
    IF link.source \in fl
    THEN [state |-> st, failed |-> fl, next |-> nf, charged |-> FALSE]
    ELSE LET c == FindIndex(st, link.source) IN
         IF c = 0
         THEN [state |-> st, failed |-> fl, next |-> nf, charged |-> FALSE]
         ELSE LET eq == st[c].equity - Loss(link, shk)
                  st2 == [st EXCEPT ![c].equity = eq]
              IN IF eq <= 0
                 THEN [state |-> st2, failed |-> fl,
                       next |-> Append(nf, link.source), charged |-> TRUE]
                 ELSE [state |-> st2, failed |-> fl, next |-> nf, charged |-> TRUE]

\* the body of affectedLinks.forEach for one link
ApplyLink(st, fl, nf, link, shk) ==
    IF link.source \in fl
    THEN [state |-> st, failed |-> fl, next |-> nf, charged |-> FALSE]
    ELSE LET c == FindIndex(st, link.source) IN
         IF c = 0
         THEN [state |-> st, failed |-> fl, next |-> nf, charged |-> FALSE]
         ELSE LET eq == st[c].equity - Loss(link, shk)
                  st2 == [st EXCEPT ![c].equity = eq]
              IN IF eq <= 0
                 THEN [state |-> st2, failed |-> fl \cup {link.source},
                       next |-> Append(nf, link.source), charged |-> TRUE]
                 ELSE [state |-> st2, failed |-> fl, next |-> nf, charged |-> TRUE]

\* the while condition without the round cap
LoopContinuesNoCap(cur, d) == Len(cur) > 0

\* the while condition
LoopContinues(cur, d) == Len(cur) > 0 /\ d < MaxRounds

\* AssetsOf reading the assets the way the equity table does (`|| 100`)
AssetsOfDefaulted(insts, id) ==
    IF FindInst(insts, id) = 0 THEN 0
    ELSE Or(insts[FindInst(insts, id)].total_assets, DefaultAssets)

\* inst?.total_assets || 0 for inst = institutions.find(i => i.institution_id === id)
AssetsOf(insts, id) ==
    IF FindInst(insts, id) = 0 THEN 0
    ELSE Or(insts[FindInst(insts, id)].total_assets, 0)

\* the reduce over the ids of fl that are <= k
RECURSIVE SumAssets(_, _, _)
SumAssets(fl, insts, k) ==
    IF k = 0 THEN 0
    ELSE (IF k \in fl THEN AssetsOf(insts, k) ELSE 0) + SumAssets(fl, insts, k - 1)

\* Array.from(failed).reduce((sum, id) => sum + (inst?.total_assets || 0), 0)
TotalLoss(fl, insts) ==
    IF fl = {} THEN 0
    ELSE SumAssets(fl, insts, CHOOSE m \in fl : \A x \in fl : x <= m)

NoResult == [isNull |-> TRUE, failedNodes |-> {}, rounds |-> <<>>,
             totalLoss |-> 0, depth |-> 0]

(***************************************************************************)
(* dataProcessor.ts: the pure parts                                        *)
(***************************************************************************)
GENERATED_PREFIXES ==
    <<"Global", "Apex", "Nova", "Stellar", "Ironclad", "Legacy", "Centurion",
      "Summit", "Horizon", "Zenith">>

GENERATED_SUFFIXES ==
    <<"Bank", "Trust", "Capital", "Holdings", "Investments", "Group", "Financial",
      "Bancorp", "Union", "Credit">>

\* `${prefix} ${suffix}` as a pair; num is the number the digits of the id spell
generateProfessionalName(id) ==
    LET num == Or(id, 0)
    IN <<GENERATED_PREFIXES[(num % Len(GENERATED_PREFIXES)) + 1],
         GENERATED_SUFFIXES[((num + 3) % Len(GENERATED_SUFFIXES)) + 1]>>

sectors == <<"Banking", "Insurance", "Asset Management">>

\* a row that is null: reading a field of it throws a TypeError
NullRow == [isNull |-> TRUE]

IsNull(row) == "isNull" \in DOMAIN row

\* rows.reduce((acc, curr) => acc + (curr[f] || 0), 0) over the rows 1..k
RECURSIVE SumField(_, _, _)
SumField(rows, f, k) ==
    IF k = 0 THEN 0 ELSE SumField(rows, f, k - 1) + Or(rows[k][f], 0)

\* the value of `return 0.62` and of `return 0.6245`
EmptyFallback == (62 * RiskUnits) \div 100

CatchFallback == (6245 * RiskUnits) \div 10000

\* (Math.random() * 0.0024) - 0.0012 for Math.random() = r / RandDen
Jitter(r) == (r * 24 * RiskUnits) \div (RandDen * 10000) - (12 * RiskUnits) \div 10000

\* calculateStableRisk(currentMetrics, marketLatest) with Math.random() = r / RandDen
calculateStableRisk(currentMetrics, marketLatest, r) ==
    IF Len(currentMetrics) = 0 THEN EmptyFallback
    ELSE IF \E k \in 1..Len(currentMetrics) : IsNull(currentMetrics[k])
    THEN CatchFallback
    ELSE LET n == Len(currentMetrics)
             avgLeverage   == (SumField(currentMetrics, "leverage_ratio", n) * RiskUnits) \div n
             leverageScore == Min(avgLeverage \div 30, RiskUnits)
             avgCds        == (SumField(currentMetrics, "cds_spread", n) * RiskUnits) \div n
             cdsScore      == Min(avgCds \div 600, RiskUnits)
             vixVal        == Or(marketLatest.vix_index, 25)
             vixScore      == Min((vixVal * RiskUnits) \div 50, RiskUnits)
             baseRiskIndex == (leverageScore * 4 + cdsScore * 4 + vixScore * 2) \div 10
         IN Max(0, Min(RiskUnits, baseRiskIndex + Jitter(r)))

\* metrics.length > 0 ? metrics[metrics.length - 1].date : ''
LatestDate(metrics) == IF Len(metrics) > 0 THEN metrics[Len(metrics)].date ELSE 0

\* market.find(m => m.date === latestDate) || market[market.length - 1] || { vix_index: 25 }
MarketLatest(market, latestDate) ==
    IF \E i \in 1..Len(market) : market[i].date = latestDate
    THEN market[CHOOSE i \in 1..Len(market) :
                    /\ market[i].date = latestDate
                    /\ \A j \in 1..(i - 1) : market[j].date # latestDate]
    ELSE IF Len(market) > 0 THEN market[Len(market)]
    ELSE [vix_index |-> 25]

\* metrics.filter(m => m.date === latestDate)
CurrentMetrics(metrics) ==
    SelectSeq(metrics, LAMBDA m : m.date = LatestDate(metrics))

\* connectionCounts[id] after network.forEach over the rows 1..k
RECURSIVE ConnectionCount(_, _, _, _)
ConnectionCount(network, latestDate, id, k) ==
    IF k = 0 THEN 0
    ELSE ConnectionCount(network, latestDate, id, k - 1)
         + (IF network[k].date = latestDate /\ network[k].debtor_id = id THEN 1 ELSE 0)
         + (IF network[k].date = latestDate /\ network[k].creditor_id = id THEN 1 ELSE 0)

\* nodeVolumes[id] after network.forEach over the rows 1..k
RECURSIVE NodeVolume(_, _, _, _)
NodeVolume(network, latestDate, id, k) ==
    IF k = 0 THEN 0
    ELSE NodeVolume(network, latestDate, id, k - 1)
         + (IF network[k].date = latestDate /\ network[k].debtor_id = id
            THEN Or(network[k].exposure_amount, 0) ELSE 0)
         + (IF network[k].date = latestDate /\ network[k].creditor_id = id
            THEN Or(network[k].exposure_amount, 0) ELSE 0)

\* Object.keys(connectionCounts)
ConnectionKeys(network, latestDate) ==
    UNION {{network[k].debtor_id, network[k].creditor_id} :
              k \in {j \in 1..Len(network) : network[j].date = latestDate}}

\* Math.min(x / d, 1) * w
CappedShare(x, d, w) == Min((x * w * ScoreUnits) \div d, w * ScoreUnits)

\* Math.min(lev / 40, 1) * 40 for lev = m.leverage_ratio || 15
LeverageScore(m) == CappedShare(Or(m.leverage_ratio, 15), 40, 40)

\* Math.max(0, 1.2 - liq) * 30 for liq = m.liquidity_ratio || 1
LiquidityScore(m) ==
    (Max(0, 12 - Or(m.liquidity_ratio, LiquidityDen)) * 30 * ScoreUnits) \div LiquidityDen

\* Math.min(cds / 1000, 1) * 20 for cds = m.cds_spread || 100
CdsScore(m) == CappedShare(Or(m.cds_spread, 100), 1000, 20)

\* Math.min(vix / 60, 1) * 10 for vix = marketLatest.vix_index || 25
VixScore(marketLatest) == CappedShare(Or(marketLatest.vix_index, 25), 60, 10)

\* Math.min(100, leverageScore + liquidityScore + cdsScore + vixScore); no
\* enumerated field is a string, so the sum is never NaN
RiskScore(m, marketLatest) ==
    Min(100 * ScoreUnits,
        LeverageScore(m) + LiquidityScore(m) + CdsScore(m) + VixScore(marketLatest))

\* the Institution built by currentMetrics.map((m, idx) => ...), idx counted from 1
MakeNode(m, idx, network, latestDate, marketLatest) ==
    [date            |-> m.date,
     institution_id  |-> m.institution_id,
     total_assets    |-> m.total_assets,
     leverage_ratio  |-> m.leverage_ratio,
     liquidity_ratio |-> m.liquidity_ratio,
     cds_spread      |-> m.cds_spread,
     name            |-> generateProfessionalName(m.institution_id),
     type            |-> IF Or(m.total_assets, 0) > 1000 THEN "G-SIB" ELSE "Regional",
     sector          |-> sectors[((idx - 1) % 3) + 1],
     riskScore       |-> RiskScore(m, marketLatest),
     pagerank        |-> Or(NodeVolume(network, latestDate, m.institution_id, Len(network)), 0),
     centrality      |->
        (Or(ConnectionCount(network, latestDate, m.institution_id, Len(network)), 0)
            * CentralityUnits)
        \div Max(1, Cardinality(ConnectionKeys(network, latestDate)))]

\* network.filter(e => e.date === latestDate).map(e => ({source, target, amount, collateral}))
MakeLinks(network, latestDate) ==
    LET rows == SelectSeq(network, LAMBDA e : e.date = latestDate)
    IN [i \in 1..Len(rows) |->
           [source     |-> rows[i].creditor_id,
            target     |-> rows[i].debtor_id,
            amount     |-> Or(rows[i].exposure_amount, 0),
            collateral |-> Or(rows[i].collateral_value, 0)]]

\* MakePrediction with the two probability bands exchanged
MakePredictionSwapped(l, latestDate, stableRiskVal, rp, rs) ==
    [timestamp   |-> l.date,
     probability |-> IF l.date = latestDate THEN stableRiskVal
                     ELSE IF l.is_crisis # 0
                          THEN (25 * RiskUnits) \div 100 + (rp * RiskUnits) \div (RandDen * 10)
                          ELSE (65 * RiskUnits) \div 100 + (rp * RiskUnits) \div (RandDen * 10),
     severity    |-> IF l.crisis_severity # 0 THEN l.crisis_severity * RandDen
                     ELSE IF l.is_crisis # 0 THEN 7 * RandDen + rs * 2
                          ELSE 3 * RandDen + rs * 2]

\* the CrisisPrediction of label row l, with Math.random() = rp / RandDen for the
\* probability and rs / RandDen for the severity
MakePrediction(l, latestDate, stableRiskVal, rp, rs) ==
    [timestamp   |-> l.date,
     probability |-> IF l.date = latestDate THEN stableRiskVal
                     ELSE IF l.is_crisis # 0
                          THEN (65 * RiskUnits) \div 100 + (rp * RiskUnits) \div (RandDen * 10)
                          ELSE (25 * RiskUnits) \div 100 + (rp * RiskUnits) \div (RandDen * 10),
     severity    |-> IF l.crisis_severity # 0 THEN l.crisis_severity * RandDen
                     ELSE IF l.is_crisis # 0 THEN 7 * RandDen + rs * 2
                          ELSE 3 * RandDen + rs * 2]

\* processCsvData(metrics, network, market, labels); r is the draw of the
\* jitter, draws[i] the two draws of label row i
ProcessedData(in, r, draws) ==
    LET latestDate     == LatestDate(in.metrics)
        marketLatest   == MarketLatest(in.market, latestDate)
        currentMetrics == CurrentMetrics(in.metrics)
        stableRiskVal  == calculateStableRisk(currentMetrics, marketLatest, r)
    IN [done  |-> TRUE,
        nodes |-> [idx \in 1..Len(currentMetrics) |->
                      MakeNode(currentMetrics[idx], idx, in.network, latestDate, marketLatest)],
        links |-> MakeLinks(in.network, latestDate),
        predictions |-> [i \in 1..Len(in.labels) |->
                            MakePrediction(in.labels[i], latestDate, stableRiskVal,
                                           draws[i][1], draws[i][2])]]

NoInput == [metrics |-> <<>>, network |-> <<>>, market |-> <<>>, labels |-> <<>>]

NoOutput == [done |-> FALSE, nodes |-> <<>>, links |-> <<>>, predictions |-> <<>>]

NoRiskCall == [called |-> FALSE, rows |-> <<>>, value |-> 0]

(***************************************************************************)
(* The snapshots and the calls the environment makes                       *)
(***************************************************************************)
Normal   == [total_assets |-> 100, leverage_ratio |-> 10]   \* equity 10
Big      == [total_assets |-> 200, leverage_ratio |-> 10]   \* equity 20
NoLev    == [total_assets |-> 100, leverage_ratio |-> 0]    \* equity 100/15
NoAssets == [total_assets |-> 0,   leverage_ratio |-> 10]   \* equity 100/10
NegLev   == [total_assets |-> 100, leverage_ratio |-> -5]   \* equity -20

MakeInsts(v) ==
    [i \in 1..Len(v) |-> [institution_id |-> i,
                          total_assets   |-> v[i].total_assets,
                          leverage_ratio |-> v[i].leverage_ratio]]

ProfileVectors ==
    { <<Normal, Normal, Big>>, <<Normal, NoLev, NoAssets>>,
      <<Normal, NegLev, Big>>, <<NoAssets, Normal, NegLev>>,
      <<NegLev, Normal, Normal>>, <<Big, NoLev, Normal>> }

Edge(s, t, a) == [source |-> s, target |-> t, amount |-> a]

\* creditor -> debtor edges over institutions 1..3; 4 is no institution
SmallEdges ==
    { Edge(2, 1, 10), Edge(3, 1, 10), Edge(3, 2, 10), Edge(1, 2, 60),
      Edge(1, 1, 10), Edge(4, 1, 10) }

\* a chain of ChainLen institutions, each the creditor of the one before it
ChainInsts == MakeInsts([i \in 1..ChainLen |-> Normal])
ChainExps  == [k \in 1..(ChainLen - 1) |-> Edge(k + 1, k, 10)]

StartIds == 0..4
Shocks   == {0, 10, 20}

RunsEdges    == { Edge(2, 1, 10), Edge(3, 1, 10), Edge(3, 2, 10), Edge(1, 2, 60) }
RunsStartIds == {1, 2}
RunsShocks   == {10, 20}

InitRest ==
    /\ timers = <<>>
    /\ isRunning = FALSE
    /\ simResult = NoResult
    /\ reportData = [loss |-> 0, failures |-> 0, active |-> FALSE]
    /\ pc = "idle"
    /\ startId = 0
    /\ shock = 0
    /\ failed = {}
    /\ rounds = <<>>
    /\ currentFailed = <<>>
    /\ state = <<>>
    /\ depth = 0
    /\ nextFailures = <<>>
    /\ fIdx = 1
    /\ lIdx = 1
    /\ charged = {}
    /\ prevState = <<>>
    /\ prevFailed = {}

\* the data processor is not called
InitCsvIdle ==
    /\ csvIn = NoInput
    /\ csvOut = NoOutput
    /\ riskCall = NoRiskCall

\* useState of the SystemicSimulator: '' and 1.0
InitUi ==
    /\ patientZero = 0
    /\ lgd = ShockDen
    /\ resetAt = -1

NoTable == [loaded |-> FALSE, rows |-> <<>>]

NoUpload == [metrics |-> NoTable, network |-> NoTable, market |-> NoTable,
             labels |-> NoTable, transactions |-> NoTable]

\* useState of the App
InitAppState ==
    /\ view = "INGESTION"
    /\ uploadedData = NoUpload
    /\ predictions = <<>>
    /\ isAnalyzing = FALSE
    /\ analysisTimers = <<>>
    /\ alerts = 0
    /\ failedNodes = {}
    /\ aiMemo = ""
    /\ loadingAi = FALSE
    /\ memoCalls = 0
    /\ analyzed = FALSE
    /\ lastInput = NoUpload

\* no file is chosen
InitAppIdle ==
    /\ InitAppState
    /\ uploadsLeft = 0

NoResults == [isNull |-> TRUE, before |-> <<>>, after |-> <<>>]

NoMessage == [kind |-> "null"]

NoRun == [by |-> "none", mode |-> "none"]

\* useState of the InterventionSandbox: MANUAL, 'INST-0001', 2.5, 15, 250
InitSandboxState ==
    /\ mode = "MANUAL"
    /\ targetId = 1
    /\ capitalBuffer = 5
    /\ exposureReduction = 15
    /\ liquidityInjection = 250
    /\ capEnforcement = TRUE
    /\ tradingRestriction = FALSE
    /\ isSimulating = FALSE
    /\ results = NoResults
    /\ successMessage = NoMessage
    /\ sbTimers = <<>>
    /\ sbKicks = <<>>
    /\ lastRun = NoRun

\* the sandbox is not mounted
InitSandboxIdle ==
    /\ InitSandboxState
    /\ sbInstitutions = <<>>
    /\ aiClicksLeft = 0

\* one call of runSimulation on any snapshot
Init ==
    /\ \/ /\ institutions \in {MakeInsts(v) : v \in ProfileVectors}
          /\ exposures \in SeqsUpTo(SmallEdges, MaxExp)
       \/ /\ institutions = ChainInsts
          /\ exposures = ChainExps
    /\ callsLeft = 1
    /\ InitRest
    /\ InitCsvIdle
    /\ InitUi
    /\ InitAppIdle
    /\ InitSandboxIdle

\* one call on the chain or on a graph of fewer exposures
InitLive ==
    /\ \/ /\ institutions \in {MakeInsts(v) : v \in ProfileVectors}
          /\ exposures \in SeqsUpTo(SmallEdges, MaxExpRuns)
       \/ /\ institutions = ChainInsts
          /\ exposures = ChainExps
    /\ callsLeft = 1
    /\ InitRest
    /\ InitCsvIdle
    /\ InitUi
    /\ InitAppIdle
    /\ InitSandboxIdle

\* repeated and overlapping calls on one snapshot
InitRuns ==
    /\ institutions = MakeInsts(<<Normal, Normal, Big>>)
    /\ exposures \in SeqsUpTo(RunsEdges, MaxExpRuns)
    /\ callsLeft = MaxCalls
    /\ InitRest
    /\ InitCsvIdle
    /\ InitUi
    /\ InitAppIdle
    /\ InitSandboxIdle

\* the simulator panel as mounted: nothing selected, LGD 100%
InitPanel ==
    /\ institutions = MakeInsts(<<Normal, Normal, Big>>)
    /\ exposures \in SeqsUpTo(RunsEdges, MaxExpRuns)
    /\ callsLeft = MaxCalls
    /\ InitRest
    /\ InitCsvIdle
    /\ InitUi
    /\ InitAppIdle
    /\ InitSandboxIdle

(***************************************************************************)
(* Actions                                                                 *)
(***************************************************************************)
\* runSimulation(startId, shock) up to the setTimeout
runSimulation(sId, shk) ==
    /\ pc = "idle"
    /\ callsLeft > 0
    /\ callsLeft' = callsLeft - 1
    /\ IF sId = 0
       THEN UNCHANGED <<isRunning, timers>>
       ELSE /\ isRunning' = TRUE
            /\ timers' = Append(timers, [startId |-> sId, shock |-> shk])
    /\ UNCHANGED <<csvVars, uiVars, appVars, sbVars, institutions, exposures, simResult, reportData, pc, locals>>

\* TimerFire with the equity table hoisted out of the callback: built by the
\* first run, kept by the later ones
TimerFireShared ==
    /\ pc = "idle"
    /\ timers # <<>>
    /\ timers' = Tail(timers)
    /\ startId' = Head(timers).startId
    /\ shock' = Head(timers).shock
    /\ failed' = {Head(timers).startId}
    /\ rounds' = << <<Head(timers).startId>> >>
    /\ currentFailed' = <<Head(timers).startId>>
    /\ state' = IF state = <<>> THEN InitialState(institutions) ELSE state
    /\ depth' = 0
    /\ nextFailures' = <<>>
    /\ fIdx' = 1
    /\ lIdx' = 1
    /\ charged' = {}
    /\ prevState' = IF state = <<>> THEN InitialState(institutions) ELSE state
    /\ prevFailed' = {Head(timers).startId}
    /\ pc' = "while"
    /\ UNCHANGED <<csvVars, uiVars, appVars, sbVars, institutions, exposures, callsLeft, isRunning, simResult, reportData>>

\* the timer callback starts: everything up to the while
TimerFire ==
    /\ pc = "idle"
    /\ timers # <<>>
    /\ timers' = Tail(timers)
    /\ startId' = Head(timers).startId
    /\ shock' = Head(timers).shock
    /\ failed' = {Head(timers).startId}
    /\ rounds' = << <<Head(timers).startId>> >>
    /\ currentFailed' = <<Head(timers).startId>>
    /\ state' = InitialState(institutions)
    /\ depth' = 0
    /\ nextFailures' = <<>>
    /\ fIdx' = 1
    /\ lIdx' = 1
    /\ charged' = {}
    /\ prevState' = InitialState(institutions)
    /\ prevFailed' = {Head(timers).startId}
    /\ pc' = "while"
    /\ UNCHANGED <<csvVars, uiVars, appVars, sbVars, institutions, exposures, callsLeft, isRunning, simResult, reportData>>

\* while (currentFailed.length > 0 && depth < 20) { const nextFailures = [];
WhileTest ==
    /\ pc = "while"
    /\ IF LoopContinues(currentFailed, depth)
       THEN /\ nextFailures' = <<>>
            /\ fIdx' = 1
            /\ lIdx' = 1
            /\ prevState' = state
            /\ prevFailed' = failed
            /\ pc' = "forEach"
       ELSE /\ pc' = "finish"
            /\ UNCHANGED <<nextFailures, fIdx, lIdx, prevState, prevFailed>>
    /\ UNCHANGED <<csvVars, uiVars, appVars, sbVars, institutions, exposures, callsLeft, timers, isRunning, simResult,
                   reportData, startId, shock, failed, rounds, currentFailed, state,
                   depth, charged>>

\* ProcessLink where the loss is also written to the creditor's Institution record
ProcessLinkAliased ==
    /\ pc = "forEach"
    /\ fIdx <= Len(currentFailed)
    /\ lIdx <= Len(AffectedLinks(exposures, currentFailed[fIdx]))
    /\ LET li == AffectedLinks(exposures, currentFailed[fIdx])[lIdx]
           r  == ApplyLink(state, failed, nextFailures, exposures[li], shock)
       IN /\ state' = r.state
          /\ failed' = r.failed
          /\ nextFailures' = r.next
          /\ charged' = IF r.charged THEN charged \cup {li} ELSE charged
          /\ institutions' =
                IF r.charged
                THEN [institutions EXCEPT
                        ![FindInst(institutions, exposures[li].source)].total_assets =
                            @ - Or(exposures[li].amount, 0)]
                ELSE institutions
    /\ lIdx' = lIdx + 1
    /\ UNCHANGED <<csvVars, uiVars, appVars, sbVars, exposures, callsLeft, timers, isRunning, simResult,
                   reportData, pc, startId, shock, rounds, currentFailed, depth, fIdx,
                   prevState, prevFailed>>

\* one link of affectedLinks.forEach
ProcessLink ==
    /\ pc = "forEach"
    /\ fIdx <= Len(currentFailed)
    /\ lIdx <= Len(AffectedLinks(exposures, currentFailed[fIdx]))
    /\ LET li == AffectedLinks(exposures, currentFailed[fIdx])[lIdx]
           r  == ApplyLink(state, failed, nextFailures, exposures[li], shock)
       IN /\ state' = r.state
          /\ failed' = r.failed
          /\ nextFailures' = r.next
          /\ charged' = IF r.charged THEN charged \cup {li} ELSE charged
    /\ lIdx' = lIdx + 1
    /\ UNCHANGED <<csvVars, uiVars, appVars, sbVars, institutions, exposures, callsLeft, timers, isRunning, simResult,
                   reportData, pc, startId, shock, rounds, currentFailed, depth, fIdx,
                   prevState, prevFailed>>

\* affectedLinks is exhausted: currentFailed.forEach moves on
NextFailedId ==
    /\ pc = "forEach"
    /\ fIdx <= Len(currentFailed)
    /\ lIdx > Len(AffectedLinks(exposures, currentFailed[fIdx]))
    /\ fIdx' = fIdx + 1
    /\ lIdx' = 1
    /\ UNCHANGED <<csvVars, uiVars, appVars, sbVars, institutions, exposures, callsLeft, timers, isRunning, simResult,
                   reportData, pc, startId, shock, failed, rounds, currentFailed, state,
                   depth, nextFailures, charged, prevState, prevFailed>>

\* EndRound pushing the round and counting it before the emptiness test
EndRoundPushFirst ==
    /\ pc = "forEach"
    /\ fIdx > Len(currentFailed)
    /\ rounds' = Append(rounds, nextFailures)
    /\ currentFailed' = nextFailures
    /\ depth' = depth + 1
    /\ pc' = IF Len(nextFailures) = 0 THEN "finish" ELSE "while"
    /\ UNCHANGED <<csvVars, uiVars, appVars, sbVars, institutions, exposures, callsLeft, timers, isRunning, simResult,
                   reportData, startId, shock, failed, state, nextFailures, fIdx, lIdx,
                   charged, prevState, prevFailed>>

\* EndRound with `currentFailed = currentFailed.concat(nextFailures)`
EndRoundAccumulate ==
    /\ pc = "forEach"
    /\ fIdx > Len(currentFailed)
    /\ IF Len(nextFailures) = 0
       THEN /\ pc' = "finish"
            /\ UNCHANGED <<rounds, currentFailed, depth>>
       ELSE /\ rounds' = Append(rounds, nextFailures)
            /\ currentFailed' = currentFailed \o nextFailures
            /\ depth' = depth + 1
            /\ pc' = "while"
    /\ UNCHANGED <<csvVars, uiVars, appVars, sbVars, institutions, exposures, callsLeft, timers, isRunning, simResult,
                   reportData, startId, shock, failed, state, nextFailures, fIdx, lIdx,
                   charged, prevState, prevFailed>>

\* if (nextFailures.length === 0) break; rounds.push(...); currentFailed = ...; depth++
EndRound ==
    /\ pc = "forEach"
    /\ fIdx > Len(currentFailed)
    /\ IF Len(nextFailures) = 0
       THEN /\ pc' = "finish"
            /\ UNCHANGED <<rounds, currentFailed, depth>>
       ELSE /\ rounds' = Append(rounds, nextFailures)
            /\ currentFailed' = nextFailures
            /\ depth' = depth + 1
            /\ pc' = "while"
    /\ UNCHANGED <<csvVars, uiVars, appVars, sbVars, institutions, exposures, callsLeft, timers, isRunning, simResult,
                   reportData, startId, shock, failed, state, nextFailures, fIdx, lIdx,
                   charged, prevState, prevFailed>>

\* totalLoss, setSimResult, setIsRunning(false), onSimulationComplete
Finish ==
    /\ pc = "finish"
    /\ LET totalLoss == TotalLoss(failed, institutions)
       IN /\ simResult' = [isNull |-> FALSE, failedNodes |-> failed, rounds |-> rounds,
                           totalLoss |-> totalLoss, depth |-> depth]
          /\ reportData' = [loss |-> totalLoss, failures |-> Cardinality(failed),
                            active |-> TRUE]
    /\ isRunning' = FALSE
    /\ pc' = "idle"
    /\ UNCHANGED <<csvVars, uiVars, appVars, sbVars, institutions, exposures, callsLeft, timers, locals>>

Callback ==
    \/ TimerFire
    \/ WhileTest
    \/ ProcessLink
    \/ NextFailedId
    \/ EndRound
    \/ Finish

Next ==
    \/ \E sId \in StartIds, shk \in Shocks : runSimulation(sId, shk)
    \/ TimerFire
    \/ WhileTest
    \/ ProcessLink
    \/ NextFailedId
    \/ EndRound
    \/ Finish

NextRuns ==
    \/ \E sId \in RunsStartIds, shk \in RunsShocks : runSimulation(sId, shk)
    \/ TimerFire
    \/ WhileTest
    \/ ProcessLink
    \/ NextFailedId
    \/ EndRound
    \/ Finish

\* the options of the patient-zero select and the rows of the threat table
PanelIds == {institutions[i].institution_id : i \in 1..Len(institutions)}

\* <select onChange={(e) => setPatientZero(e.target.value)}>
SelectPatientZero(id) ==
    /\ pc = "idle"
    /\ id \in PanelIds
    /\ patientZero' = id
    /\ UNCHANGED <<csvVars, appVars, sbVars, lgd, resetAt, institutions, exposures,
                   callsLeft, timers, isRunning, simResult, reportData, pc, locals>>

\* the LGD slider: min 0, max 1, step 0.05
SetLgd(v) ==
    /\ pc = "idle"
    /\ v \in 0..ShockDen
    /\ lgd' = v
    /\ UNCHANGED <<csvVars, appVars, sbVars, patientZero, resetAt, institutions,
                   exposures, callsLeft, timers, isRunning, simResult, reportData,
                   pc, locals>>

\* the Execute button without its disabled attribute
ClickExecuteEnabled ==
    runSimulation(patientZero, lgd)

\* <button onClick={() => runSimulation(patientZero, lgd)}
\*         disabled={!patientZero || isRunning}>
ClickExecute ==
    /\ patientZero # 0
    /\ ~isRunning
    /\ runSimulation(patientZero, lgd)

\* handleReset; the pending timer is left as it is
handleReset ==
    /\ pc = "idle"
    /\ simResult' = NoResult
    /\ patientZero' = 0
    /\ reportData' = [loss |-> 0, failures |-> 0, active |-> FALSE]
    /\ resetAt' = callsLeft
    /\ UNCHANGED <<csvVars, appVars, sbVars, lgd, institutions, exposures, callsLeft,
                   timers, isRunning, pc, locals>>

\* a row of the threat table: setPatientZero(rank.id); setSimResult(null)
ClickThreat(id) ==
    /\ pc = "idle"
    /\ id \in PanelIds
    /\ patientZero' = id
    /\ simResult' = NoResult
    /\ UNCHANGED <<csvVars, appVars, sbVars, lgd, resetAt, institutions, exposures,
                   callsLeft, timers, isRunning, reportData, pc, locals>>

NextPanel ==
    \/ \E id \in RunsStartIds : SelectPatientZero(id)
    \/ \E v \in RunsShocks : SetLgd(v)
    \/ ClickExecute
    \/ handleReset
    \/ \E id \in RunsStartIds : ClickThreat(id)
    \/ TimerFire
    \/ WhileTest
    \/ ProcessLink
    \/ NextFailedId
    \/ EndRound
    \/ Finish

Spec == Init /\ [][Next]_vars

\* the simulator panel under clicks and timer expiry
SpecPanel == InitPanel /\ [][NextPanel]_vars

SpecRuns == InitRuns /\ [][NextRuns]_vars

\* the event loop runs a ready callback, and a callback runs to completion
FairSpec == InitLive /\ [][Next]_vars /\ WF_vars(Callback)

(***************************************************************************)
(* The data processor: the CSV rows it is given and its calls              *)
(***************************************************************************)
\* metrics profiles: liquidity_ratio in tenths
MNormal   == [total_assets |-> 100,  leverage_ratio |-> 10,   liquidity_ratio |-> 12,
              cds_spread |-> 400]
MStressed == [total_assets |-> 2000, leverage_ratio |-> 50,   liquidity_ratio |-> 1,
              cds_spread |-> 2000]
MUnset    == [total_assets |-> 0,    leverage_ratio |-> 0,    liquidity_ratio |-> 0,
              cds_spread |-> 0]
MNegative == [total_assets |-> 100,  leverage_ratio |-> -100, liquidity_ratio |-> -10,
              cds_spread |-> -500]

Metric(d, id, prof) ==
    [date |-> d, institution_id |-> id, total_assets |-> prof.total_assets,
     leverage_ratio |-> prof.leverage_ratio, liquidity_ratio |-> prof.liquidity_ratio,
     cds_spread |-> prof.cds_spread]

\* rows of two institutions at two dates; the older rows are all alike
MetricRows ==
    {Metric(2, id, prof) : id \in {1, 2}, prof \in {MNormal, MStressed, MUnset, MNegative}}
        \cup {Metric(1, id, MNormal) : id \in {1, 2}}

FewMetrics ==
    { <<>>, <<Metric(2, 1, MNormal)>>,
      <<Metric(2, 1, MNormal), Metric(2, 2, MStressed)>>,
      <<Metric(1, 1, MNormal), Metric(2, 2, MUnset)>> }

NetRow(d, c, b, a) ==
    [date |-> d, creditor_id |-> c, debtor_id |-> b, exposure_amount |-> a,
     collateral_value |-> 0]

\* exposures among the ids 1..3 (3 has no metrics row), one of them a
\* self-loop, one without an amount, one of an older date
NetworkRows ==
    { NetRow(2, 1, 2, 10), NetRow(2, 2, 1, 10), NetRow(2, 1, 3, 10),
      NetRow(2, 3, 1, 0), NetRow(2, 1, 1, 10), NetRow(1, 2, 1, 10) }

MarketRow(d, v) == [date |-> d, vix_index |-> v]

Markets ==
    { <<>>, <<MarketRow(2, 90)>>, <<MarketRow(1, -60)>>, <<MarketRow(2, 0)>>,
      <<MarketRow(2, 30), MarketRow(1, 90)>>, <<MarketRow(1, 30), MarketRow(1, -60)>> }

FewMarkets == { <<>>, <<MarketRow(2, 90)>>, <<MarketRow(1, -60)>> }

Label(d, c, sev) == [date |-> d, is_crisis |-> c, crisis_severity |-> sev]

LabelRows ==
    { Label(2, 1, 0), Label(1, 1, 0), Label(1, 0, 0), Label(1, 0, 15), Label(1, 1, -3) }

\* the values of Math.random() the model draws: the least and the largest
Rand == {0, RandDen - 1}

\* the rows processCsvData is called with: any metrics and market rows, any
\* network rows, or any label rows
InitCsv ==
    /\ csvIn \in
          {[metrics |-> m, network |-> <<>>, market |-> k, labels |-> <<>>] :
              m \in SeqsUpTo(MetricRows, MaxMetrics), k \in Markets}
          \cup
          {[metrics |-> m, network |-> n, market |-> <<>>, labels |-> <<>>] :
              m \in FewMetrics, n \in SeqsUpTo(NetworkRows, MaxNetwork)}
          \cup
          {[metrics |-> m, network |-> <<>>, market |-> k, labels |-> l] :
              m \in FewMetrics, k \in FewMarkets, l \in SeqsUpTo(LabelRows, MaxLabels)}
    /\ csvOut = NoOutput
    /\ riskCall = NoRiskCall
    /\ institutions = <<>>
    /\ exposures = <<>>
    /\ callsLeft = 0
    /\ InitRest
    /\ InitUi
    /\ InitAppIdle
    /\ InitSandboxIdle

\* one call of processCsvData on the rows of csvIn
processCsvData ==
    /\ ~csvOut.done
    /\ ~riskCall.called
    /\ \E r \in Rand, draws \in [1..Len(csvIn.labels) -> Rand \X Rand] :
          csvOut' = ProcessedData(csvIn, r, draws)
    /\ UNCHANGED <<uiVars, appVars, sbVars, csvIn, riskCall, institutions, exposures, callsLeft, timers,
                   isRunning, simResult, reportData, pc, locals>>

\* one call of calculateStableRisk on the rows of the reference date, of
\* which one may be null
calculateStableRiskCall ==
    /\ ~csvOut.done
    /\ ~riskCall.called
    /\ \E r \in Rand, k \in 0..Len(CurrentMetrics(csvIn.metrics)) :
          LET cm   == CurrentMetrics(csvIn.metrics)
              rows == IF k = 0 THEN cm ELSE [cm EXCEPT ![k] = NullRow]
          IN riskCall' =
                [called |-> TRUE, rows |-> rows,
                 value  |-> calculateStableRisk(
                               rows, MarketLatest(csvIn.market, LatestDate(csvIn.metrics)), r)]
    /\ UNCHANGED <<uiVars, appVars, sbVars, csvIn, csvOut, institutions, exposures, callsLeft, timers,
                   isRunning, simResult, reportData, pc, locals>>

NextCsv ==
    \/ processCsvData
    \/ calculateStableRiskCall

SpecCsv == InitCsv /\ [][NextCsv]_vars

(***************************************************************************)
(* The App: uploads, runAnalysisEngine and its 1200 ms timer               *)
(***************************************************************************)
panelVars == <<callsLeft, timers, isRunning, simResult, reportData, pc, locals>>

Mandatory == {"metrics", "network", "market", "labels"}

\* !uploadedData.metrics || !uploadedData.network || ... : an empty table is
\* an array and counts as present
AnyMissing == \E k \in Mandatory : ~uploadedData[k].loaded

\* the four arguments of processCsvData
TablesOf(u) ==
    [metrics |-> u.metrics.rows, network |-> u.network.rows,
     market |-> u.market.rows, labels |-> u.labels.rows]

\* a label table longer than the horizon
LongLabels == [i \in 1..(Horizon + 1) |-> Label(IF i = 1 THEN 1 ELSE 2, 1, 5)]

\* the files the model uploads
UploadChoices ==
    [metrics |-> { <<Metric(2, 1, MNormal), Metric(2, 2, MStressed)>>,
                   <<Metric(1, 1, MNormal)>>, <<>> },
     network |-> { <<NetRow(2, 1, 2, 10)>> },
     market  |-> { <<MarketRow(2, 90)>> },
     labels  |-> { <<Label(2, 1, 0), Label(1, 1, 0)>>, LongLabels, <<>> }]

\* the values Math.random() can give while the predictions are built: the
\* probability draws only off the reference date, the severity only for a
\* row without one
RECURSIVE DrawSeqs(_, _, _)
DrawSeqs(labels, latestDate, n) ==
    IF n = 0 THEN {<<>>}
    ELSE {Append(d, <<rp, rs>>) :
            d  \in DrawSeqs(labels, latestDate, n - 1),
            rp \in IF labels[n].date = latestDate THEN {0} ELSE Rand,
            rs \in IF labels[n].crisis_severity # 0 THEN {0} ELSE Rand}

\* predictions.slice(0, 10).map((p, i) => ...): d.setMonth(d.getMonth() + i)
\* from the 14th of February 2026, read back in UTC
AdjustedPredictions(preds) ==
    [i \in 1..Min(Len(preds), Horizon) |->
        [timestamp   |-> [from |-> AnalysisBaseDate, months |-> i - 1],
         probability |-> preds[i].probability,
         severity    |-> preds[i].severity]]

InitApp ==
    /\ InitAppState
    /\ uploadsLeft = MaxUploads
    /\ institutions = <<>>
    /\ exposures = <<>>
    /\ callsLeft = 0
    /\ InitRest
    /\ InitCsvIdle
    /\ InitUi
    /\ InitSandboxIdle

\* handleFileChange(key, file) with the parse completed
handleFileChange(key, rows) ==
    /\ view = "INGESTION"
    /\ uploadsLeft > 0
    /\ uploadsLeft' = uploadsLeft - 1
    /\ uploadedData' = [uploadedData EXCEPT ![key] = [loaded |-> TRUE, rows |-> rows]]
    /\ UNCHANGED <<csvVars, uiVars, sbVars, panelVars, institutions, exposures, view,
                   predictions, isAnalyzing, analysisTimers, alerts, failedNodes,
                   aiMemo, loadingAi, memoCalls, analyzed, lastInput>>

\* runAnalysisEngine with the return after the alert left out
runAnalysisEngineNoReturn ==
    /\ IF AnyMissing
       THEN /\ alerts < MaxAlerts
            /\ alerts' = alerts + 1
       ELSE UNCHANGED alerts
    /\ isAnalyzing' = TRUE
    /\ analysisTimers' = Append(analysisTimers, uploadedData)
    /\ UNCHANGED <<csvVars, uiVars, sbVars, panelVars, institutions, exposures, view,
                   uploadedData, predictions, failedNodes, aiMemo, loadingAi,
                   memoCalls, uploadsLeft, analyzed, lastInput>>

\* runAnalysisEngine up to the setTimeout; the callback keeps the tables of
\* the render it was made in
runAnalysisEngine ==
    /\ IF AnyMissing
       THEN /\ alerts < MaxAlerts
            /\ alerts' = alerts + 1
            /\ UNCHANGED <<isAnalyzing, analysisTimers>>
       ELSE /\ isAnalyzing' = TRUE
            /\ analysisTimers' = Append(analysisTimers, uploadedData)
            /\ UNCHANGED alerts
    /\ UNCHANGED <<csvVars, uiVars, sbVars, panelVars, institutions, exposures, view,
                   uploadedData, predictions, failedNodes, aiMemo, loadingAi,
                   memoCalls, uploadsLeft, analyzed, lastInput>>

\* the analysis button: disabled={!isMandatoryLoaded || isAnalyzing}; the
\* model follows the session up to its first analysis and what comes after it
ClickAnalyze ==
    /\ view = "INGESTION"
    /\ ~AnyMissing
    /\ ~isAnalyzing
    /\ ~analyzed
    /\ runAnalysisEngine

\* the handler called while a table is absent, which the button does not allow
AnalyzeWithMissing ==
    /\ AnyMissing
    /\ ~isAnalyzing
    /\ runAnalysisEngine

\* the timer callback of runAnalysisEngine, with handleGenerateAiInsight up
\* to its await
AnalysisTimerFire ==
    /\ analysisTimers # <<>>
    /\ analysisTimers' = Tail(analysisTimers)
    /\ LET u  == Head(analysisTimers)
           in == TablesOf(u)
       IN /\ \E r \in Rand,
                draws \in DrawSeqs(in.labels, LatestDate(in.metrics), Len(in.labels)) :
                LET out == ProcessedData(in, r, draws)
                IN /\ institutions' = out.nodes
                   /\ exposures' = out.links
                   /\ predictions' = AdjustedPredictions(out.predictions)
                   /\ IF Len(out.nodes) = 0
                      THEN UNCHANGED <<loadingAi, memoCalls>>
                      ELSE /\ loadingAi' = TRUE
                           /\ memoCalls' = memoCalls + 1
          /\ lastInput' = u
    /\ isAnalyzing' = FALSE
    /\ view' = "DASHBOARD"
    /\ analyzed' = TRUE
    /\ UNCHANGED <<csvVars, uiVars, sbVars, panelVars, uploadedData, alerts,
                   failedNodes, aiMemo, uploadsLeft>>

\* handleGenerateAiInsight after the await: generatePolicyMemo always returns a text
MemoReturns ==
    /\ memoCalls > 0
    /\ memoCalls' = memoCalls - 1
    /\ aiMemo' = "memo"
    /\ loadingAi' = FALSE
    /\ UNCHANGED <<csvVars, uiVars, sbVars, panelVars, institutions, exposures, view,
                   uploadedData, predictions, isAnalyzing, analysisTimers, alerts,
                   failedNodes, uploadsLeft, analyzed, lastInput>>

\* a sidebar item: onClick={() => setView(v)}
setView(v) ==
    /\ view' = v
    /\ UNCHANGED <<csvVars, uiVars, sbVars, panelVars, institutions, exposures,
                   uploadedData, predictions, isAnalyzing, analysisTimers, alerts,
                   failedNodes, aiMemo, loadingAi, memoCalls, uploadsLeft, analyzed,
                   lastInput>>

NextApp ==
    \/ \E key \in Mandatory : \E rows \in UploadChoices[key] : handleFileChange(key, rows)
    \/ ClickAnalyze
    \/ AnalyzeWithMissing
    \/ AnalysisTimerFire
    \/ MemoReturns
    \/ \E v \in {"INGESTION", "DASHBOARD", "CONTAGION"} : setView(v)

SpecApp == InitApp /\ [][NextApp]_vars

(***************************************************************************)
(* The InterventionSandbox: its controls and its two timers                *)
(***************************************************************************)
\* generateMockInstitutions(): total_assets is Math.random() * 2000 + 100
MockAssets == {100, 1000}

\* institutions.find(i => i.institution_id === targetId) || institutions[0]
selectedInstitution ==
    IF \E i \in 1..Len(sbInstitutions) : sbInstitutions[i].institution_id = targetId
    THEN sbInstitutions[CHOOSE i \in 1..Len(sbInstitutions) :
            /\ sbInstitutions[i].institution_id = targetId
            /\ \A j \in 1..(i - 1) : sbInstitutions[j].institution_id # targetId]
    ELSE sbInstitutions[1]

\* what a function of the current render sees
Render ==
    [mode |-> mode, capitalBuffer |-> capitalBuffer,
     exposureReduction |-> exposureReduction,
     liquidityInjection |-> liquidityInjection, selected |-> selectedInstitution]

\* reductionPercentage of a run in MANUAL mode, before the constraints:
\* (capitalBuffer * 1.5 + exposureReduction * 0.8 + liquidityInjection / 500)
\*     * ((total_assets || 500) / 500)
ManualReduction(c) ==
    2 * (375 * c.capitalBuffer + 400 * c.exposureReduction + c.liquidityInjection)
      * Or(c.selected.total_assets, 500)

\* reductionPercentage: 42.5 in AI mode, else the formula held in [0.1, 45]
ReductionPercentage(c) ==
    IF c.mode = "AI" THEN (85 * SbUnits) \div 2
    ELSE Max((SbUnits \div 10), Min(45 * SbUnits, ManualReduction(c)))

\* the argument of setResults
ResultsOf(r) ==
    [isNull |-> FALSE,
     before |-> [prob |-> 85 * SbUnits, loss |-> 89 * SbUnits, failures |-> 12],
     after  |-> [prob |-> Max(0, 85 * SbUnits - r),
                 loss |-> Max(0, 89 * SbUnits - (3 * r) \div 2),
                 failures |-> Max(0, (12 * 5 * SbUnits - r) \div (5 * SbUnits))]]

\* reductionPercentage.toFixed(1), in tenths
ToFixed1(r) == (10 * r + SbUnits \div 2) \div SbUnits

AiMessage == [kind |-> "ai"]

\* the argument of setSuccessMessage
MessageOf(c, r) ==
    IF c.mode = "MANUAL"
    THEN [kind |-> "manual", name |-> c.selected.institution_id,
          reduction |-> ToFixed1(r),
          centrality |-> IF Or(c.selected.total_assets, 500) * 2 > 3 * 500
                         THEN "high" ELSE "moderate"]
    ELSE AiMessage

InitSandbox ==
    /\ InitSandboxState
    /\ sbInstitutions \in
          {[i \in 1..SbBanks |-> [institution_id |-> i, total_assets |-> a[i]]] :
              a \in [1..SbBanks -> MockAssets]}
    /\ aiClicksLeft = MaxAiClicks
    /\ institutions = <<>>
    /\ exposures = <<>>
    /\ callsLeft = 0
    /\ InitRest
    /\ InitCsvIdle
    /\ InitUi
    /\ InitAppIdle

\* runTargetedSimulation of the render c, up to the setTimeout
runTargetedSimulation(c, by) ==
    /\ isSimulating' = TRUE
    /\ sbTimers' = Append(sbTimers, [render |-> c, by |-> by])

\* the run button: disabled={isSimulating || (isLocked && results !== null)}
ClickRun ==
    /\ ~isSimulating
    /\ ~(mode = "AI" /\ ~results.isNull)
    /\ runTargetedSimulation(Render, "button")
    /\ UNCHANGED <<csvVars, uiVars, appVars, panelVars, institutions, exposures, mode,
                   targetId, capitalBuffer, exposureReduction, liquidityInjection,
                   capEnforcement, tradingRestriction, results, successMessage,
                   sbKicks, sbInstitutions, aiClicksLeft, lastRun>>

\* applyAIStrategy: the 50 ms callback calls the runTargetedSimulation of the
\* render the click was made in
applyAIStrategy ==
    /\ aiClicksLeft > 0
    /\ aiClicksLeft' = aiClicksLeft - 1
    /\ mode' = "AI"
    /\ results' = NoResults
    /\ capitalBuffer' = 17
    /\ exposureReduction' = 40
    /\ liquidityInjection' = 500
    /\ capEnforcement' = TRUE
    /\ tradingRestriction' = TRUE
    /\ sbKicks' = Append(sbKicks, Render)
    /\ UNCHANGED <<csvVars, uiVars, appVars, panelVars, institutions, exposures,
                   targetId, isSimulating, successMessage, sbTimers, sbInstitutions,
                   lastRun>>

\* the 50 ms timer of applyAIStrategy expires
KickFire ==
    /\ sbKicks # <<>>
    /\ sbKicks' = Tail(sbKicks)
    /\ runTargetedSimulation(Head(sbKicks), "ai")
    /\ UNCHANGED <<csvVars, uiVars, appVars, panelVars, institutions, exposures, mode,
                   targetId, capitalBuffer, exposureReduction, liquidityInjection,
                   capEnforcement, tradingRestriction, results, successMessage,
                   sbInstitutions, aiClicksLeft, lastRun>>

\* the 1200 ms timer of runTargetedSimulation expires
RunTimerFire ==
    /\ sbTimers # <<>>
    /\ sbTimers' = Tail(sbTimers)
    /\ LET c == Head(sbTimers).render
           r == ReductionPercentage(c)
       IN /\ results' = ResultsOf(r)
          /\ successMessage' = MessageOf(c, r)
          /\ lastRun' = [by |-> Head(sbTimers).by, mode |-> c.mode]
    /\ isSimulating' = FALSE
    /\ UNCHANGED <<csvVars, uiVars, appVars, panelVars, institutions, exposures, mode,
                   targetId, capitalBuffer, exposureReduction, liquidityInjection,
                   capEnforcement, tradingRestriction, sbKicks, sbInstitutions,
                   aiClicksLeft>>

switchToManual ==
    /\ mode' = "MANUAL"
    /\ results' = NoResults
    /\ successMessage' = NoMessage
    /\ capitalBuffer' = 5
    /\ exposureReduction' = 15
    /\ liquidityInjection' = 250
    /\ capEnforcement' = TRUE
    /\ tradingRestriction' = FALSE
    /\ UNCHANGED <<csvVars, uiVars, appVars, panelVars, institutions, exposures,
                   targetId, isSimulating, sbTimers, sbKicks, sbInstitutions,
                   aiClicksLeft, lastRun>>

\* the target select, disabled={isLocked}
setTargetId(id) ==
    /\ mode # "AI"
    /\ targetId' = id
    /\ results' = NoResults
    /\ successMessage' = NoMessage
    /\ UNCHANGED <<csvVars, uiVars, appVars, panelVars, institutions, exposures, mode,
                   capitalBuffer, exposureReduction, liquidityInjection,
                   capEnforcement, tradingRestriction, isSimulating, sbTimers,
                   sbKicks, sbInstitutions, aiClicksLeft, lastRun>>

\* the sliders and the number input, disabled={isLocked}
SetSliders(cb, er, li) ==
    /\ mode # "AI"
    /\ capitalBuffer' = cb
    /\ exposureReduction' = er
    /\ liquidityInjection' = li
    /\ UNCHANGED <<csvVars, uiVars, appVars, panelVars, institutions, exposures, mode,
                   targetId, capEnforcement, tradingRestriction, isSimulating, results,
                   successMessage, sbTimers, sbKicks, sbInstitutions, aiClicksLeft,
                   lastRun>>

\* the cap toggle, disabled={isLocked}
ToggleCapEnforcement ==
    /\ mode # "AI"
    /\ capEnforcement' = ~capEnforcement
    /\ UNCHANGED <<csvVars, uiVars, appVars, panelVars, institutions, exposures, mode,
                   targetId, capitalBuffer, exposureReduction, liquidityInjection,
                   tradingRestriction, isSimulating, results, successMessage, sbTimers,
                   sbKicks, sbInstitutions, aiClicksLeft, lastRun>>

NextSandbox ==
    \/ ClickRun
    \/ applyAIStrategy
    \/ KickFire
    \/ RunTimerFire
    \/ switchToManual
    \/ \E id \in 1..SbBanks : setTargetId(id)
    \/ \E s \in {<<40, 50, 500>>} : SetSliders(s[1], s[2], s[3])
    \/ ToggleCapEnforcement

SpecSandbox == InitSandbox /\ [][NextSandbox]_vars

(***************************************************************************)
(* runSimulation as one function of the snapshot and its arguments: the    *)
(* result of a call that nothing ran before                                *)
(***************************************************************************)
\* currentFailed.forEach(fId => exposures.filter(...)): the links in visiting order
RECURSIVE AllAffected(_, _)
AllAffected(exps, cur) ==
    IF cur = <<>> THEN <<>>
    ELSE AffectedLinks(exps, Head(cur)) \o AllAffected(exps, Tail(cur))

RECURSIVE RunLinks(_, _, _, _, _, _)
RunLinks(st, fl, nf, lis, exps, shk) ==
    IF lis = <<>> THEN [state |-> st, failed |-> fl, next |-> nf]
    ELSE LET r == ApplyLink(st, fl, nf, exps[Head(lis)], shk)
         IN RunLinks(r.state, r.failed, r.next, Tail(lis), exps, shk)

RECURSIVE Cascade(_, _, _, _, _, _, _)
Cascade(st, fl, rs, cur, d, exps, shk) ==
    IF LoopContinues(cur, d)
    THEN LET r == RunLinks(st, fl, <<>>, AllAffected(exps, cur), exps, shk)
         IN IF Len(r.next) = 0
            THEN [failedNodes |-> r.failed, rounds |-> rs, depth |-> d]
            ELSE Cascade(r.state, r.failed, Append(rs, r.next), r.next, d + 1, exps, shk)
    ELSE [failedNodes |-> fl, rounds |-> rs, depth |-> d]

Simulate(insts, exps, sId, shk) ==
    LET c == Cascade(InitialState(insts), {sId}, << <<sId>> >>, <<sId>>, 0, exps, shk)
    IN [isNull |-> FALSE, failedNodes |-> c.failedNodes, rounds |-> c.rounds,
        totalLoss |-> TotalLoss(c.failedNodes, insts), depth |-> c.depth]

(***************************************************************************)
(* Properties of the cascade                                               *)
(***************************************************************************)
InRun == pc # "idle"

Returned == pc = "finish"

\* the number of places of rs (round, position) that hold id
Occurrences(id, rs) ==
    Cardinality({p \in UNION {{<<k, j>> : j \in 1..Len(rs[k])} : k \in 1..Len(rs)} :
                    rs[p[1]][p[2]] = id})

\* C1: during a run the failed set only grows; no institution that is already
\* failed is charged a loss; and every id of a result's failed set stands at
\* exactly one place of its rounds (once in one round, in no other round).
C1_CascadeMonotone ==
    [][/\ InRun => failed \subseteq failed'
       /\ InRun => \A i \in 1..Len(state) :
                      state'[i].equity # state[i].equity => state[i].id \notin failed
       /\ ~simResult'.isNull =>
             \A id \in simResult'.failedNodes : Occurrences(id, simResult'.rounds) = 1
      ]_vars

\* a run of depth >= 2 returned after skipping a link of a creditor that had failed
C1_Witness ==
    /\ Returned
    /\ depth >= 2
    /\ \E li \in 1..Len(exposures) :
          /\ exposures[li].target \in failed
          /\ exposures[li].source \in failed \ {startId}
          /\ li \notin charged

\* the losses of the exposures 1..k of creditor id whose debtor is in debtors
RECURSIVE SumLoss(_, _, _, _, _)
SumLoss(k, id, debtors, exps, shk) ==
    IF k = 0 THEN 0
    ELSE (IF exps[k].source = id /\ exps[k].target \in debtors
          THEN Loss(exps[k], shk) ELSE 0)
         + SumLoss(k - 1, id, debtors, exps, shk)

\* the end-of-round rule: charge every exposure whose debtor failed in the
\* previous round to its creditor if that creditor was solvent when the round
\* began, then fail every solvent institution whose equity is <= 0
EndOfRoundRule(pst, pfl, cur, exps, shk) ==
    {pst[i].id : i \in {j \in 1..Len(pst) :
        /\ pst[j].id \notin pfl
        /\ pst[j].equity - SumLoss(Len(exps), pst[j].id, ToSet(cur), exps, shk) <= 0}}

RoundDone == pc = "forEach" /\ fIdx > Len(currentFailed)

\* C2: at the end of every propagation round the newly failed set is the set
\* the end-of-round rule gives (amounts are >= 0 and the shock is in [0,1] in
\* every snapshot of the model), whatever the order of the exposure list.
C2_EndOfRoundRule ==
    RoundDone =>
        ToSet(nextFailures) =
            EndOfRoundRule(prevState, prevFailed, currentFailed, exposures, shock)

\* the same rule where every institution starts with equity > 0
PositiveEquity == \A i \in 1..Len(institutions) : InitialState(institutions)[i].equity > 0

C2_EndOfRoundRuleOnPositiveEquity == PositiveEquity => C2_EndOfRoundRule

\* C3: every run ends, and neither the rounds it builds nor the rounds it
\* returns are more than round 0 plus MaxRounds propagation rounds.
C3_TerminatesWithinCap ==
    /\ [](Len(rounds) <= MaxRounds + 1)
    /\ [](~simResult.isNull => Len(simResult.rounds) <= MaxRounds + 1)
    /\ ((timers # <<>> \/ InRun) ~> (pc = "idle" /\ timers = <<>> /\ ~simResult.isNull))

\* a result with the full 21 rounds
C3_Witness == ~simResult.isNull /\ Len(simResult.rounds) = MaxRounds + 1

\* an exposure whose debtor failed is settled: its creditor failed too, or was
\* charged the loss and keeps equity > 0 (an exposure whose creditor is no
\* institution has no equity to lose and is settled)
Settled(li) ==
    LET c == FindIndex(state, exposures[li].source)
    IN \/ c = 0
       \/ exposures[li].source \in failed
       \/ li \in charged /\ state[c].equity > 0

Stabilized ==
    \A li \in 1..Len(exposures) : exposures[li].target \in failed => Settled(li)

\* C4 as stated: whenever runSimulation leaves its loop the cascade has stabilized.
C4_StabilizedOnReturn == Returned => Stabilized

\* C4 as amended: it has stabilized whenever the loop is left below the round cap.
C4_StabilizedBelowCap == (Returned /\ depth < MaxRounds) => Stabilized

\* a run below the cap returned with a solvent creditor that absorbed a loss
C4_Witness ==
    /\ Returned
    /\ depth >= 1
    /\ depth < MaxRounds
    /\ \E li \in charged : exposures[li].source \notin failed

\* C5: a run with lgd 0 returns depth 0 and the failed set {start_id}.
C5_NoOpAtZeroLgd ==
    (Returned /\ shock = 0) => (depth = 0 /\ failed = {startId})

\* C6: no callback runs, and no result is produced, for a start_id that no
\* institution of the snapshot carries.
C6_UnknownStartRejected ==
    /\ InRun => FindInst(institutions, startId) # 0
    /\ ~simResult.isNull => FindInst(institutions, simResult.rounds[1][1]) # 0

\* C7: round 0 of a run is [start_id], and in every result the failed set is
\* the union of the rounds, depth is rounds.length - 1 and no round is empty.
C7_ResultShape ==
    /\ Returned => rounds[1] = <<startId>>
    /\ ~simResult.isNull =>
          /\ Len(simResult.rounds) >= 1
          /\ Len(simResult.rounds[1]) = 1
          /\ simResult.failedNodes =
                UNION {ToSet(simResult.rounds[k]) : k \in 1..Len(simResult.rounds)}
          /\ simResult.depth = Len(simResult.rounds) - 1
          /\ \A k \in 1..Len(simResult.rounds) : simResult.rounds[k] # <<>>

\* a result with at least two propagation rounds
C7_Witness == ~simResult.isNull /\ simResult.depth >= 2

\* the total_assets of the institutions 1..k of the snapshot whose id is in fl
RECURSIVE SumFailedAssets(_, _)
SumFailedAssets(k, fl) ==
    IF k = 0 THEN 0
    ELSE (IF institutions[k].institution_id \in fl
          THEN institutions[k].total_assets ELSE 0) + SumFailedAssets(k - 1, fl)

\* C8: the total loss of a result is the sum of total_assets over the
\* institutions of its failed set.
C8_TotalLossIsFailedAssets ==
    ~simResult.isNull =>
        simResult.totalLoss = SumFailedAssets(Len(institutions), simResult.failedNodes)

\* a result with a cascade in which an institution without assets failed
C8_Witness ==
    /\ ~simResult.isNull
    /\ simResult.depth >= 1
    /\ simResult.totalLoss > 0
    /\ \E i \in 1..Len(institutions) :
          /\ institutions[i].institution_id \in simResult.failedNodes
          /\ institutions[i].total_assets = 0

\* C9: no step changes the Institution records or the exposure list; a run
\* writes its own table, and there only the equity.
C9_SnapshotUnchanged ==
    [][/\ institutions' = institutions
       /\ exposures' = exposures
       /\ InRun => \A i \in 1..Len(state) :
                      state'[i].id = state[i].id /\ state'[i].assets = state[i].assets
      ]_vars

\* a run has charged a loss to its equity table
C9_Witness == InRun /\ charged # {} /\ state # InitialState(institutions)

\* C10: the result a run hands to setSimResult is the result of the same call
\* on the same snapshot with nothing run before it.
C10_RunsIndependent ==
    [][(pc = "finish" /\ pc' = "idle") =>
          simResult' = Simulate(institutions, exposures, startId, shock)]_vars

\* a cascading run returns after another cascading run from a different start
C10_Witness ==
    /\ Returned
    /\ depth >= 1
    /\ ~simResult.isNull
    /\ simResult.depth >= 1
    /\ simResult.rounds[1][1] # startId

\* the leverage the equity is to be computed with: 15 when unset or <= 0
EffectiveLeverage(lev) == IF lev <= 0 THEN DefaultLeverage ELSE lev

\* C11: when the callback has built its table (before round 0) every equity is
\* total_assets / leverage_ratio, with leverage 15 where leverage_ratio is
\* unset or <= 0; afterwards an equity is never above that initial value.
C11_InitialEquity ==
    /\ (pc = "while" /\ depth = 0) =>
          \A i \in 1..Len(state) :
             state[i].equity * EffectiveLeverage(institutions[i].leverage_ratio)
                = institutions[i].total_assets * EquityUnits
    /\ InRun => \A i \in 1..Len(state) :
                   state[i].equity <= InitialState(institutions)[i].equity

\* the part of C11 that the code keeps: an equity changes only by a loss being
\* subtracted from it, and it is never rebuilt within a run
C11_EquityOnlyDecreases ==
    [][(InRun /\ pc' # "idle") =>
          \A i \in 1..Len(state) : state'[i].equity <= state[i].equity]_vars

\* no exposure of the snapshot has id as its debtor
NoDebtor(id) == \A li \in 1..Len(exposures) : exposures[li].target # id

\* C12: a run from a start_id that is the debtor of no exposure hands over
\* failed = {start_id}, rounds = [[start_id]], depth 0 and the total_assets of
\* start_id as the total loss, whatever the lgd.
C12_IsolatedStart ==
    [][(pc = "finish" /\ pc' = "idle" /\ NoDebtor(startId)) =>
          simResult' = [isNull |-> FALSE, failedNodes |-> {startId},
                        rounds |-> << <<startId>> >>,
                        totalLoss |-> IF FindInst(institutions, startId) = 0 THEN 0
                                      ELSE institutions[FindInst(institutions, startId)].total_assets,
                        depth |-> 0]]_vars

\* a result at full lgd for a start that owes nothing while it is itself the
\* creditor of an exposure and other exposures exist
C12_Witness ==
    /\ pc = "idle"
    /\ ~simResult.isNull
    /\ NoDebtor(startId)
    /\ shock = ShockDen
    /\ simResult.totalLoss > 0
    /\ \E li \in 1..Len(exposures) : exposures[li].source = startId
    /\ \E li \in 1..Len(exposures) : exposures[li].source # startId

\* the institutions other than the start whose exposures to the start lose, at
\* the lgd of the run, at least their initial equity
RoundOneRule ==
    {institutions[i].institution_id : i \in {j \in 1..Len(institutions) :
        /\ institutions[j].institution_id # startId
        /\ SumLoss(Len(exposures), institutions[j].institution_id, {startId},
                   exposures, shock) >= InitialState(institutions)[j].equity}}

\* C13: round 1 of a returned run (empty when there is none) is exactly the
\* set of institutions other than start_id whose summed exposures to start_id,
\* times the lgd, are >= their initial equity.
C13_RoundOne ==
    Returned => (IF Len(rounds) >= 2 THEN ToSet(rounds[2]) ELSE {}) = RoundOneRule

\* the same where every institution starts with equity > 0
C13_RoundOneOnPositiveEquity == PositiveEquity => C13_RoundOne

\* the example of C13: A, B, C with assets 100 and leverage 10, one exposure
\* of 60 from creditor B on debtor A, start A, lgd 1.0
C13_Example ==
    Simulate(MakeInsts(<<Normal, Normal, Normal>>), <<Edge(2, 1, 60)>>, 1, ShockDen)
        = [isNull |-> FALSE, failedNodes |-> {1, 2}, rounds |-> << <<1>>, <<2>> >>,
           totalLoss |-> 200, depth |-> 1]

\* C25: in a run on a snapshot whose initial equities are all > 0, after
\* every step an institution has equity <= 0 exactly when it is in the failed
\* set and is not start_id (so every solvent institution has equity > 0).
C25_EquityMatchesFailed ==
    (PositiveEquity /\ InRun) =>
        \A i \in 1..Len(state) :
            (state[i].equity <= 0) <=> (state[i].id \in failed /\ state[i].id # startId)

\* a run on positive equities in which one creditor failed and another
\* absorbed a loss and stayed solvent
C25_Witness ==
    /\ PositiveEquity
    /\ InRun
    /\ failed # {startId}
    /\ \E li \in charged : exposures[li].source \notin failed

\* C26: every institution of round k >= 1 of a returned run is an institution
\* of the snapshot and the creditor of an exposure whose debtor is in round k-1.
C26_FailedByPreviousRound ==
    Returned =>
        \A k \in 2..Len(rounds) : \A j \in 1..Len(rounds[k]) :
            /\ FindInst(institutions, rounds[k][j]) # 0
            /\ \E li \in 1..Len(exposures) :
                  /\ exposures[li].source = rounds[k][j]
                  /\ exposures[li].target \in ToSet(rounds[k - 1])

\* a returned run of two propagation rounds whose start also owes to a
\* creditor that is no institution
C26_Witness ==
    /\ Returned
    /\ depth >= 2
    /\ \E li \in 1..Len(exposures) :
          /\ exposures[li].target = startId
          /\ FindInst(institutions, exposures[li].source) = 0

\* the round of rs in which id is listed (counted from 1)
RoundOf(id, rs) == CHOOSE k \in 1..Len(rs) : id \in ToSet(rs[k])

\* C27: on the snapshot and start of a returned run, every larger shock gives
\* a failed set that contains the run's failed set and lists none of its
\* members in a later round.
C27_MonotoneInShock ==
    Returned =>
        \A shk2 \in Shocks :
            shk2 >= shock =>
                LET r2 == Simulate(institutions, exposures, startId, shk2)
                IN /\ failed \subseteq r2.failedNodes
                   /\ \A id \in failed : RoundOf(id, r2.rounds) <= RoundOf(id, rounds)

\* a returned run at half the shock with a cascade, where the full shock
\* fails strictly more institutions
C27_Witness ==
    /\ Returned
    /\ shock > 0
    /\ shock < ShockDen
    /\ depth >= 1
    /\ failed # Simulate(institutions, exposures, startId, ShockDen).failedNodes

(***************************************************************************)
(* Properties of the simulator panel                                       *)
(***************************************************************************)
ClearedReport == [loss |-> 0, failures |-> 0, active |-> FALSE]

\* timers set and not yet run to their end
Outstanding == Len(timers) + (IF pc = "idle" THEN 0 ELSE 1)

\* C30: at most one simulation timer is outstanding, isRunning is true exactly
\* while one is, and a click on Execute starts a timer only when isRunning is
\* false and a patient zero is selected, whatever the order of Execute,
\* Reset, selection and timer expiry
C30_AtMostOnePending ==
    /\ [](Outstanding <= 1 /\ (isRunning <=> Outstanding = 1))
    /\ [][Len(timers') > Len(timers) => ~isRunning /\ patientZero # 0]_vars

\* a run is pending after a reset was clicked during it
C30_Witness ==
    /\ isRunning
    /\ timers # <<>>
    /\ resetAt = callsLeft
    /\ patientZero # 0

\* C28: from handleReset to the next click on Execute the displayed result is
\* null and the parent's report data is {loss 0, failures 0, active false}
C28_ResetStaysCleared ==
    resetAt = callsLeft => simResult.isNull /\ reportData = ClearedReport

\* what C28 asks for holds as long as no timer was pending at the reset
C28_ClearedWhileNothingRan ==
    resetAt = callsLeft /\ callsLeft = MaxCalls =>
        simResult.isNull /\ reportData = ClearedReport

\* C24: when a simulation completes the report exporter is given its failed
\* count, its total loss and the set of its failed ids; a reset gives it an
\* inactive result with loss 0, failures 0 and no failed ids
C24_ExporterHoldsSimulation ==
    [][/\ pc = "finish" /\ pc' = "idle" =>
          /\ reportData' = [loss |-> simResult'.totalLoss,
                            failures |-> Cardinality(simResult'.failedNodes),
                            active |-> TRUE]
          /\ failedNodes' = simResult'.failedNodes
          /\ Cardinality(failedNodes') = reportData'.failures
       /\ resetAt' # resetAt =>
          /\ reportData' = ClearedReport
          /\ failedNodes' = {}]_vars

\* the count, the loss and the reset of C24 are as claimed; the id set the
\* exporter is given is the App's failedNodes, which nothing assigns
C24_CountAndLossReachExporter ==
    [][/\ pc = "finish" /\ pc' = "idle" =>
          reportData' = [loss |-> simResult'.totalLoss,
                         failures |-> Cardinality(simResult'.failedNodes),
                         active |-> TRUE]
       /\ resetAt' # resetAt =>
          /\ reportData' = ClearedReport
          /\ failedNodes' = {}
       /\ failedNodes' = {}]_vars

(***************************************************************************)
(* Properties of the App                                                   *)
(***************************************************************************)
\* C21: a request for analysis while one of the metrics, network, market
\* and labels tables is absent reports the error, schedules no normalization
\* and leaves institutions, exposures, predictions, the analyzing flag and
\* the view as they were; while a table is absent nothing has been analysed
C21_MissingTableBlocksAnalysis ==
    /\ [][/\ alerts' # alerts =>
              /\ AnyMissing
              /\ alerts' = alerts + 1
              /\ UNCHANGED <<institutions, exposures, predictions, isAnalyzing, view,
                             analysisTimers, analyzed>>
          /\ analysisTimers' # analysisTimers /\ analysisTimers' # <<>> =>
              ~AnyMissing /\ alerts' = alerts]_vars
    /\ [](AnyMissing =>
             /\ analysisTimers = <<>>
             /\ ~isAnalyzing
             /\ institutions = <<>> /\ exposures = <<>> /\ predictions = <<>>
             /\ view # "DASHBOARD" \/ analyzed = FALSE)

\* the error was reported with three of the four tables loaded
C21_Witness ==
    /\ alerts > 0
    /\ AnyMissing
    /\ Cardinality({k \in Mandatory : uploadedData[k].loaded}) = 3
    /\ institutions = <<>>
    /\ ~isAnalyzing

\* the reference date of the tables last analysed
AnalysedRefDate == LatestDate(lastInput.metrics.rows)

\* C23: after an analysis the prediction series has as many entries as the
\* horizon and its i-th timestamp is the reference date plus i months
\* (i from 0), whatever the label table
C23_SeriesSpansHorizon ==
    analyzed =>
        /\ Len(predictions) = Horizon
        /\ \A i \in 1..Len(predictions) :
              predictions[i].timestamp = [from |-> AnalysedRefDate, months |-> i - 1]

\* what the code gives: as many entries as label rows, at most the horizon,
\* dated from the 14th of February 2026 whatever the dates of the tables
C23_SeriesOfTheCode ==
    analyzed =>
        /\ Len(predictions) = Min(Horizon, Len(lastInput.labels.rows))
        /\ \A i \in 1..Len(predictions) :
              predictions[i].timestamp = [from |-> AnalysisBaseDate, months |-> i - 1]

(***************************************************************************)
(* Properties of the intervention sandbox                                  *)
(***************************************************************************)
\* the results and the feedback of the AI protocol: reduction 42.5
AiResults == ResultsOf((85 * SbUnits) \div 2)

\* C29: the results a click on AI RECOMMENDED leads to are those of the AI
\* protocol (after.prob 85 - 42.5, after.loss 89 - 63.75) with the AI
\* strategy message, from any mode and any slider and target settings
C29_AiClickGivesAiResult ==
    lastRun.by = "ai" /\ ~results.isNull =>
        /\ results = AiResults
        /\ results.after.prob = (85 * SbUnits) \div 2
        /\ results.after.loss = (89 * SbUnits) - (255 * SbUnits) \div 4
        /\ successMessage = AiMessage

\* a click made in AI mode does lead to the AI results, and a run gives the
\* results of the mode of the render it was started from
C29_ResultOfTheClickedRender ==
    ~results.isNull =>
        /\ lastRun.mode = "AI" => results = AiResults /\ successMessage = AiMessage
        /\ lastRun.mode = "MANUAL" => successMessage.kind = "manual"

(***************************************************************************)
(* Properties of the data processor                                        *)
(***************************************************************************)
Processed == csvOut.done

RefDate == LatestDate(csvIn.metrics)

RefMarket == MarketLatest(csvIn.market, RefDate)

RefMetrics == CurrentMetrics(csvIn.metrics)

\* C14: every institution of the output has 0 <= riskScore <= 100.
C14_RiskScoreInRange ==
    Processed => \A i \in 1..Len(csvOut.nodes) :
                    /\ csvOut.nodes[i].riskScore >= 0
                    /\ csvOut.nodes[i].riskScore <= 100 * ScoreUnits

\* no metric of the rows of the reference date, and no vix, is negative
NonNegativeInputs ==
    /\ \A i \in 1..Len(RefMetrics) :
          /\ RefMetrics[i].leverage_ratio >= 0
          /\ RefMetrics[i].liquidity_ratio >= 0
          /\ RefMetrics[i].cds_spread >= 0
    /\ RefMarket.vix_index >= 0

\* the range of C14 where no input is negative
C14_RiskScoreInRangeOnNonNegativeInputs == NonNegativeInputs => C14_RiskScoreInRange

\* C15: for every row that becomes an institution the leverage component is
\* at most 40, the liquidity component at most 30, the CDS component at most
\* 20 and the volatility component at most 10.
C15_ComponentsWithinWeights ==
    Processed => \A i \in 1..Len(RefMetrics) :
                    /\ LeverageScore(RefMetrics[i]) <= 40 * ScoreUnits
                    /\ LiquidityScore(RefMetrics[i]) <= 30 * ScoreUnits
                    /\ CdsScore(RefMetrics[i]) <= 20 * ScoreUnits
                    /\ VixScore(RefMarket) <= 10 * ScoreUnits

\* the three components of C15 that are capped
C15_CappedComponents ==
    Processed => \A i \in 1..Len(RefMetrics) :
                    /\ LeverageScore(RefMetrics[i]) <= 40 * ScoreUnits
                    /\ CdsScore(RefMetrics[i]) <= 20 * ScoreUnits
                    /\ VixScore(RefMarket) <= 10 * ScoreUnits

C16_StableRiskInRange ==
    riskCall.called => (riskCall.value >= 0 /\ riskCall.value <= RiskUnits)

\* id is the creditor or the debtor of a network row of the reference date
HasExposure(id) ==
    \E k \in 1..Len(csvIn.network) :
        /\ csvIn.network[k].date = RefDate
        /\ id \in {csvIn.network[k].creditor_id, csvIn.network[k].debtor_id}

\* C17: an institution of the output with an exposure at the reference date
\* has a centrality in [0,1]; one without has centrality 0 and volume 0; and
\* every row of the reference date has its institution in the output.
C17_CentralityInRange ==
    Processed =>
        /\ \A i \in 1..Len(csvOut.nodes) :
              IF HasExposure(csvOut.nodes[i].institution_id)
              THEN /\ csvOut.nodes[i].centrality >= 0
                   /\ csvOut.nodes[i].centrality <= CentralityUnits
              ELSE /\ csvOut.nodes[i].centrality = 0
                   /\ csvOut.nodes[i].pagerank = 0
        /\ \A j \in 1..Len(RefMetrics) :
              \E i \in 1..Len(csvOut.nodes) :
                  csvOut.nodes[i].institution_id = RefMetrics[j].institution_id

\* no network row of the reference date is a self-loop, and no two of them
\* join the same two institutions (in either direction)
SimpleNetwork ==
    \A k \in 1..Len(csvIn.network) :
        csvIn.network[k].date = RefDate =>
            /\ csvIn.network[k].creditor_id # csvIn.network[k].debtor_id
            /\ \A j \in 1..(k - 1) :
                  csvIn.network[j].date = RefDate =>
                      {csvIn.network[j].creditor_id, csvIn.network[j].debtor_id}
                          # {csvIn.network[k].creditor_id, csvIn.network[k].debtor_id}

\* C17 on networks in which every exposure is to a distinct counterparty
C17_CentralityInRangeOnSimpleNetwork == SimpleNetwork => C17_CentralityInRange

\* C18: no link of the output has its source equal to its target.
C18_NoSelfLoops ==
    Processed => \A i \in 1..Len(csvOut.links) :
                    csvOut.links[i].source # csvOut.links[i].target

\* C19: the output has as many institutions as the metrics rows of the
\* reference date have distinct institution_id values.
C19_OneNodePerInstitution ==
    Processed =>
        Len(csvOut.nodes) =
            Cardinality({RefMetrics[i].institution_id : i \in 1..Len(RefMetrics)})

\* the output has one institution per metrics row of the reference date
C19_OneNodePerRow == Processed => Len(csvOut.nodes) = Len(RefMetrics)

\* C20: every prediction of the output has probability in [0,1] and severity
\* in [0,10].
C20_PredictionsClamped ==
    Processed => \A i \in 1..Len(csvOut.predictions) :
                    /\ csvOut.predictions[i].probability >= 0
                    /\ csvOut.predictions[i].probability <= RiskUnits
                    /\ csvOut.predictions[i].severity >= 0
                    /\ csvOut.predictions[i].severity <= 10 * RandDen

\* the probability range of C20 alone
C20_ProbabilityInRange ==
    Processed => \A i \in 1..Len(csvOut.predictions) :
                    /\ csvOut.predictions[i].probability >= 0
                    /\ csvOut.predictions[i].probability <= RiskUnits

====
